---------------------------- MODULE Spec2Model ----------------------------
(***************************************************************************)
(* A model of PollutionTracer (src/src/pollution_trace.py): the table read *)
(* from the spreadsheet, its numeric coercion, the StandardScaler + DBSCAN *)
(* clustering, the pollutant totals, the per-entity and per-cluster        *)
(* aggregates and the ranked member lists of the trace report.             *)
(*                                                                         *)
(* Numbers are integers.  A typed numeric cell is <<>> (NaN) or <<v>>.     *)
(* Standardised coordinates are never materialised as floats: the distance *)
(* test |z_i - z_j| <= eps is evaluated exactly, in integers.              *)
(***************************************************************************)
EXTENDS Integers, Sequences, FiniteSets, TLC

\* ------------------------------------------------------------------ bounds

\* How many rows of MasterTable a spreadsheet may draw from.
MaxRows == 11
\* How many points of MasterPoints a DBSCAN input may draw from.
MaxPts == 9
\* The largest min_samples tried on the DBSCAN operator.
MaxMinSamples == 4

\* --------------------------------------------------------- program constants

\* DBSCAN(eps=0.3, ...): eps = EpsNum / EpsDen
EpsNum == 3
EpsDen == 10
\* DBSCAN(..., min_samples=3)
MinSamples == 3
\* cluster_data.sort_values(...).head(5)
TopN == 5
\* company_stats.head(10)
TopCompanies == 10
\* the label DBSCAN gives to noise
Noise == -1

\* ------------------------------------------------------------------- cells

NaN == <<>>
Num(v) == <<v>>
IsNaN(c) == c = NaN
\* the value a NaN-skipping sum adds for the cell
NanToZero(c) == IF IsNaN(c) THEN 0 ELSE c[1]

\* A spreadsheet cell as read_excel delivers it: a number, a text, or blank.
IntCell(v) == [t |-> "num", v |-> v, s |-> <<>>]
TextCell(s) == [t |-> "text", v |-> 0, s |-> s]
Blank == [t |-> "blank", v |-> 0, s |-> <<>>]

Digits == <<"0", "1", "2", "3", "4", "5", "6", "7", "8", "9">>
IsDigit(ch) == \E d \in 1..10 : Digits[d] = ch
DigitVal(ch) == (CHOOSE d \in 1..10 : Digits[d] = ch) - 1

RECURSIVE ParseDigits(_, _)
ParseDigits(s, acc) ==
    IF s = <<>> THEN acc
    ELSE ParseDigits(Tail(s), 10 * acc + DigitVal(Head(s)))

\* pd.to_numeric(col, errors='coerce') on one cell
ToNumeric(c) ==
    CASE c.t = "num" -> Num(c.v)
      [] c.t = "text" ->
            IF c.s # <<>> /\ \A k \in 1..Len(c.s) : IsDigit(c.s[k])
            THEN Num(ParseDigits(c.s, 0))
            ELSE NaN
      [] OTHER -> NaN

\* A missing entity name or outlet type (a blank cell, NaN in the frame).
Missing == ""
\* The sort order of the category and entity names that occur.
NameOrder == <<"a", "b", "c", "x", "y">>
Rank(s) == CHOOSE k \in 1..Len(NameOrder) : NameOrder[k] = s

\* ------------------------------------------------------------------- input

RawRow(lon, lat, name, otype, vol, p1, p2, p3, p4) ==
    [lon |-> lon, lat |-> lat, name |-> name, outlet_type |-> otype,
     wastewater |-> vol, primary |-> p1, ammonia |-> p2,
     phosphorus |-> p3, nitrogen |-> p4]

Z == IntCell(0)
MasterTable == <<
    RawRow(Z, Z, "b", "y", IntCell(1), IntCell(2), Blank, Blank, Blank),
    RawRow(Z, Z, "b", "x", Blank, IntCell(1), IntCell(1), Blank, TextCell(<<"n", "a">>)),
    RawRow(TextCell(<<"1">>), Z, "a", "y", IntCell(3), Blank, Blank, IntCell(1), Blank),
    RawRow(Z, Z, "a", "y", IntCell(2), IntCell(3), Z, Z, Z),
    RawRow(IntCell(1), Z, "a", "x", TextCell(<<"4">>), TextCell(<<"2">>), Z, Z, Z),
    RawRow(Z, Z, Missing, "x", IntCell(1), IntCell(1), Z, Z, Z),
    RawRow(Z, IntCell(1), "c", Missing, IntCell(2), Blank, Blank, Blank, Blank),
    RawRow(IntCell(9), IntCell(3), "c", Missing, Blank, IntCell(4), Blank, Z, Z),
    RawRow(IntCell(9), IntCell(3), "b", "x", IntCell(7), Z, IntCell(1), Z, Blank),
    RawRow(IntCell(9), IntCell(3), "c", "y", IntCell(1), IntCell(1), IntCell(2), TextCell(<<"1", "2">>), Z),
    RawRow(TextCell(<<"x">>), Z, "a", "x", IntCell(5), IntCell(2), Z, Z, Z),
    RawRow(Z, Blank, "b", "y", IntCell(1), IntCell(3), Z, Z, Z),
    RawRow(IntCell(1), IntCell(1), "a", "y", IntCell(1), IntCell(4), Z, Z, Z)
>>

\* The rows of s whose master index lies in S, in order.
RECURSIVE Pick(_, _, _)
Pick(s, S, k) ==
    IF k > Len(s) THEN <<>>
    ELSE (IF k \in S THEN <<s[k]>> ELSE <<>>) \o Pick(s, S, k + 1)

RowLimit == IF MaxRows < Len(MasterTable) THEN MaxRows ELSE Len(MasterTable)
\* The spreadsheets tried: the sub-tables of the first RowLimit master rows.
Tables == {Pick(MasterTable, S, 1) : S \in SUBSET (1..RowLimit)}

\* ------------------------------------------------------------------- state

VARIABLES
    sheet,          \* the rows of the spreadsheet, as read_excel delivers them
    pc,             \* "init" (inside __init__), "ready", "failed" (an exception left a method)
    data,           \* self.data
    clusters,       \* what spatial_clustering last returned
    company_stats,  \* what pollution_analysis last returned
    report,         \* what generate_trace_report wrote to trace_report.md
    map,            \* the cluster centres _generate_interactive_map marked
    err,            \* the exception that left a method, "" if none
    done,           \* the methods that have returned
    X,              \* a DBSCAN input: points, in order
    eps,            \* its eps (X is on an integer grid, eps in grid units)
    min_samples,    \* its min_samples
    labels          \* what fit_predict returned for it, <<>> before the call

progVars == <<sheet, pc, data, clusters, company_stats, report, map, err, done>>
fitVars == <<X, eps, min_samples, labels>>
vars == <<sheet, pc, data, clusters, company_stats, report, map, err, done,
          X, eps, min_samples, labels>>

\* ----------------------------------------------------------- preprocess_data

PreprocessRow(r) ==
    [lon |-> ToNumeric(r.lon), lat |-> ToNumeric(r.lat),
     name |-> r.name, outlet_type |-> r.outlet_type,
     wastewater |-> ToNumeric(r.wastewater), primary |-> ToNumeric(r.primary),
     ammonia |-> ToNumeric(r.ammonia), phosphorus |-> ToNumeric(r.phosphorus),
     nitrogen |-> ToNumeric(r.nitrogen),
     cluster |-> <<>>, total_pollution |-> <<>>]

PreprocessData(rows) == [k \in 1..Len(rows) |-> PreprocessRow(rows[k])]

\* ------------------------------------------------------------ StandardScaler

RECURSIVE SumSeq(_)
SumSeq(s) == IF s = <<>> THEN 0 ELSE Head(s) + SumSeq(Tail(s))

\* n^2 times the population variance of the integer sequence v (NaN-free)
VarTimesN2(v) ==
    Len(v) * SumSeq([k \in 1..Len(v) |-> v[k] * v[k]]) - SumSeq(v) * SumSeq(v)

\* StandardScaler().fit on one column: scale^2 as the fraction num/den.
\* _handle_zeros_in_scale replaces a zero scale by 1.
ScaleSquared(v) ==
    IF VarTimesN2(v) = 0 THEN [num |-> 1, den |-> 1]
    ELSE [num |-> VarTimesN2(v), den |-> Len(v) * Len(v)]

\* Whether rows i and j of the standardised coordinates lie within
\* EpsNum/EpsDen of each other, sx and sy being the squared scales:
\*   dx^2 / sx + dy^2 / sy <= eps^2, cleared of denominators.
\* (The means cancel in the differences.)
WithinEps(lons, lats, sx, sy, i, j) ==
    LET dx2 == (lons[i] - lons[j]) * (lons[i] - lons[j])
        dy2 == (lats[i] - lats[j]) * (lats[i] - lats[j])
    IN  EpsDen * EpsDen * (dx2 * sx.den * sy.num + dy2 * sy.den * sx.num)
            <= EpsNum * EpsNum * sx.num * sy.num

\* -------------------------------------------------------------------- DBSCAN

Max(S) == CHOOSE m \in S : \A k \in S : k <= m
Min(S) == CHOOSE m \in S : \A k \in S : m <= k

RECURSIVE SetToSeq(_)
SetToSeq(S) == IF S = {} THEN <<>> ELSE <<Min(S)>> \o SetToSeq(S \ {Min(S)})

\* A faulty variant of DbscanExpand that expands through non-core points too.
RECURSIVE DbscanExpandThroughBorder(_, _, _, _, _, _)
DbscanExpandThroughBorder(lab, stack, i, label_num, nbhd, is_core) ==
    LET lab1 == IF lab[i] = Noise THEN [lab EXCEPT ![i] = label_num] ELSE lab
        push == IF lab[i] = Noise
                THEN SetToSeq({v \in nbhd[i] : lab1[v] = Noise})
                ELSE <<>>
        st1 == stack \o push
    IN  IF st1 = <<>> THEN lab1
        ELSE DbscanExpandThroughBorder(lab1, SubSeq(st1, 1, Len(st1) - 1),
                                       st1[Len(st1)], label_num, nbhd, is_core)

\* dbscan_inner's depth-first expansion from point i: the loop
\*   while True: label i if unlabelled, and if it is a core point push its
\*   unlabelled neighbours; pop the next i, stop on an empty stack.
RECURSIVE DbscanExpand(_, _, _, _, _, _)
DbscanExpand(lab, stack, i, label_num, nbhd, is_core) ==
    LET lab1 == IF lab[i] = Noise THEN [lab EXCEPT ![i] = label_num] ELSE lab
        push == IF lab[i] = Noise /\ is_core[i]
                THEN SetToSeq({v \in nbhd[i] : lab1[v] = Noise})
                ELSE <<>>
        st1 == stack \o push
    IN  IF st1 = <<>> THEN lab1
        ELSE DbscanExpand(lab1, SubSeq(st1, 1, Len(st1) - 1), st1[Len(st1)],
                          label_num, nbhd, is_core)

\* dbscan_inner's scan over the points in input order.
RECURSIVE DbscanInner(_, _, _, _, _, _)
DbscanInner(lab, i, label_num, n, nbhd, is_core) ==
    IF i > n THEN lab
    ELSE IF lab[i] # Noise \/ ~is_core[i]
         THEN DbscanInner(lab, i + 1, label_num, n, nbhd, is_core)
         ELSE DbscanInner(DbscanExpand(lab, <<>>, i, label_num, nbhd, is_core),
                          i + 1, label_num + 1, n, nbhd, is_core)

\* Two faulty variants of IsCore: the neighbourhood counted without the point
\* itself, and every point taken for a core point.
IsCoreExcludingSelf(nbhd, i, minS) == Cardinality(nbhd[i] \ {i}) >= minS
IsCoreAlways(nbhd, i, minS) == TRUE
\* A core point has at least min_samples points, itself included, in its
\* eps-neighbourhood.
IsCore(nbhd, i, minS) == Cardinality(nbhd[i]) >= minS

\* DBSCAN(eps, min_samples).fit_predict on n points whose eps-neighbourhoods
\* are nbhd (radius_neighbors: each holds the point itself).
FitPredict(n, nbhd, minS) ==
    LET is_core == [i \in 1..n |-> IsCore(nbhd, i, minS)]
    IN  DbscanInner([i \in 1..n |-> Noise], 1, 0, n, nbhd, is_core)

\* --------------------------------------------------------- spatial_clustering

HasCoords(r) == ~IsNaN(r.lon) /\ ~IsNaN(r.lat)

\* Whether StandardScaler().fit_transform and DBSCAN.fit_predict accept the
\* coordinates.  StandardScaler skips NaN but rejects an array of 0 samples;
\* DBSCAN validates its input and raises ValueError on any NaN.
CoordsAccepted(d) == Len(d) > 0 /\ \A k \in 1..Len(d) : HasCoords(d[k])

\* The eps-neighbourhoods of the standardised coordinates.
Neighborhoods(d) ==
    LET lons == [k \in 1..Len(d) |-> NanToZero(d[k].lon)]
        lats == [k \in 1..Len(d) |-> NanToZero(d[k].lat)]
        sx == ScaleSquared(lons)
        sy == ScaleSquared(lats)
        sxv == [num |-> sx.num, den |-> sx.den]
        syv == [num |-> sy.num, den |-> sy.den]
    IN  [i \in 1..Len(d) |-> {j \in 1..Len(d) : WithinEps(lons, lats, sxv, syv, i, j)}]

\* dbscan.fit_predict(coords), for coordinates that are accepted
ClusterLabels(d) == FitPredict(Len(d), Neighborhoods(d), MinSamples)

\* self.data['cluster'] = clusters
WithClusters(d, c) == [k \in 1..Len(d) |-> [d[k] EXCEPT !.cluster = <<c[k]>>]]

\* ---------------------------------------------------------- pollution_analysis

RECURSIVE SumOver(_, _)
SumOver(S, f) ==
    IF S = {} THEN 0
    ELSE LET k == CHOOSE k \in S : TRUE IN f[k] + SumOver(S \ {k}, f)

\* self.data[[the four load columns]].sum(axis=1): NaN cells are skipped,
\* and a row of four NaN sums to 0.  (TotalPollutionWithVolume is a faulty
\* variant: the wastewater volume summed in.)
TotalPollutionWithVolume(r) ==
    NanToZero(r.wastewater) + NanToZero(r.primary) + NanToZero(r.ammonia)
        + NanToZero(r.phosphorus) + NanToZero(r.nitrogen)
TotalPollution(r) ==
    NanToZero(r.primary) + NanToZero(r.ammonia) + NanToZero(r.phosphorus)
        + NanToZero(r.nitrogen)

WithTotals(d) ==
    [k \in 1..Len(d) |-> [d[k] EXCEPT !.total_pollution = <<TotalPollution(d[k])>>]]

\* The strings of S in sort order.
RECURSIVE SortNames(_)
SortNames(S) ==
    IF S = {} THEN <<>>
    ELSE LET m == CHOOSE m \in S : \A t \in S : Rank(m) <= Rank(t)
         IN  <<m>> \o SortNames(S \ {m})

\* lambda x: x.mode()[0] if not x.mode().empty else None, on the outlet types
\* of the rows G.  Series.mode drops NaN and returns the most frequent values
\* sorted, so [0] is the smallest of them.  (ModeFirstEncountered is a faulty
\* variant: the most frequent value that occurs first.)
ModeFirstEncountered(d, G) ==
    LET count(t) == Cardinality({k \in G : d[k].outlet_type = t})
        vals == {d[k].outlet_type : k \in G} \ {Missing}
        modes == {t \in vals : \A u \in vals : count(u) <= count(t)}
    IN  IF modes = {} THEN "None"
        ELSE d[Min({k \in G : d[k].outlet_type \in modes})].outlet_type
Mode(d, G) ==
    LET count(t) == Cardinality({k \in G : d[k].outlet_type = t})
        vals == {d[k].outlet_type : k \in G} \ {Missing}
        modes == {t \in vals : \A u \in vals : count(u) <= count(t)}
    IN  IF modes = {} THEN "None" ELSE SortNames(modes)[1]

\* The rows of one entity.  (GroupRowsUpToLast is a faulty variant: every row
\* up to the entity's last.)
GroupRowsUpToLast(d, name) ==
    {k \in 1..Len(d) : k <= Max({j \in 1..Len(d) : d[j].name = name})}
GroupRows(d, name) == {k \in 1..Len(d) : d[k].name = name}

\* self.data.groupby(entity name).agg(...).reset_index(): one row per entity
\* name, in sort order; rows with a missing name belong to no group.
GroupByCompany(d) ==
    LET names == SortNames({d[k].name : k \in 1..Len(d)} \ {Missing})
    IN  [g \in 1..Len(names) |->
            LET G == GroupRows(d, names[g])
            IN  [name |-> names[g],
                 total_pollution |-> SumOver(G, [k \in 1..Len(d) |-> d[k].total_pollution[1]]),
                 wastewater |-> SumOver(G, [k \in 1..Len(d) |-> NanToZero(d[k].wastewater)]),
                 outlet_type |-> Mode(d, G)]]

\* The orders sort_values(key, ascending=False) may leave the positions S in.
\* The default kind is quicksort, which is not stable: equal keys may come
\* out in any order.
RECURSIVE DescendingOrders(_, _)
DescendingOrders(S, key) ==
    IF S = {} THEN {<<>>}
    ELSE LET top == {k \in S : \A j \in S : key[j] <= key[k]}
         IN  UNION {{<<k>> \o rest : rest \in DescendingOrders(S \ {k}, key)} : k \in top}

\* The set of frames frame.sort_values(key, ascending=False) may return,
\* key being the sequence of the rows' sort keys.  (SortValuesAscending is a
\* faulty variant: ascending=False forgotten.)
SortValuesAscending(frame, key) ==
    {[p \in 1..Len(frame) |-> frame[o[Len(frame) + 1 - p]]] :
        o \in DescendingOrders(1..Len(frame), key)}
SortValuesDescending(frame, key) ==
    {[p \in 1..Len(frame) |-> frame[o[p]]] : o \in DescendingOrders(1..Len(frame), key)}

\* frame.head(n)
Head_(frame, n) == SubSeq(frame, 1, IF Len(frame) < n THEN Len(frame) ELSE n)

\* What pollution_analysis may return for the frame d (totals already set).
CompanyStats(d) ==
    LET g == GroupByCompany(d)
    IN  SortValuesDescending(g, [k \in 1..Len(g) |-> g[k].total_pollution])

\* ------------------------------------------------------ generate_trace_report

\* The rows that carry cluster label c.
ClusterRows(d, c) == {k \in 1..Len(d) : d[k].cluster = <<c>>}

\* np.unique(clusters): the labels that occur, ascending
Unique(c) == SetToSeq({c[k] : k \in 1..Len(c)})

\* self.data.groupby('cluster').agg({name: 'count', 'total_pollution': 'sum'}):
\* one row per label that occurs, ascending, the noise label included;
\* 'count' counts the non-missing names.
ClusterInfo(d) ==
    LET ids == Unique([k \in 1..Len(d) |-> d[k].cluster[1]])
    IN  [g \in 1..Len(ids) |->
            LET G == ClusterRows(d, ids[g])
            IN  [cluster |-> ids[g],
                 count |-> Cardinality({k \in G : d[k].name # Missing}),
                 total_pollution |->
                     SumOver(G, [k \in 1..Len(d) |-> d[k].total_pollution[1]])]]

\* The labels the two loops over np.unique(...) do not skip.
ReportedIds(c) == SelectSeq(Unique(c), LAMBDA id : id # Noise)

\* cluster_data = self.data[self.data['cluster'] == cluster_id], as the
\* frame's row numbers in order
ClusterData(d, c) == SetToSeq(ClusterRows(d, c))

\* The entries section 2.2 may hold for cluster c: the member count, the
\* summed total and the top members, each with its row number, name and total.
DetailChoices(d, c) ==
    LET cd == ClusterData(d, c)
        rows == [p \in 1..Len(cd) |->
                    [row |-> cd[p], name |-> d[cd[p]].name,
                     total_pollution |-> d[cd[p]].total_pollution[1]]]
    IN  {[cluster |-> c,
          count |-> Len(cd),
          total_pollution |-> SumSeq([p \in 1..Len(cd) |-> rows[p].total_pollution]),
          top |-> Head_(sorted, TopN)] :
            sorted \in SortValuesDescending(rows, [p \in 1..Len(cd) |-> rows[p].total_pollution])}

RECURSIVE DetailsChoices(_, _)
DetailsChoices(d, ids) ==
    IF ids = <<>> THEN {<<>>}
    ELSE {<<x>> \o rest : x \in DetailChoices(d, Head(ids)),
                          rest \in DetailsChoices(d, Tail(ids))}

\* _generate_interactive_map: one centre marker per cluster, at the mean
\* latitude and longitude of its rows (Series.mean skips NaN).  A mean is
\* kept as the pair sum, count.
MeanOf(d, G, f) ==
    LET V == {k \in G : ~IsNaN(f[k])}
    IN  [sum |-> SumOver(V, [k \in 1..Len(d) |-> NanToZero(f[k])]),
         count |-> Cardinality(V)]

Centers(d) ==
    LET ids == ReportedIds([k \in 1..Len(d) |-> d[k].cluster[1]])
    IN  [g \in 1..Len(ids) |->
            LET G == ClusterRows(d, ids[g])
            IN  [cluster |-> ids[g],
                 center_lat |-> MeanOf(d, G, [k \in 1..Len(d) |-> d[k].lat]),
                 center_lon |-> MeanOf(d, G, [k \in 1..Len(d) |-> d[k].lon]),
                 count |-> Cardinality(G),
                 total_pollution |->
                     SumOver(G, [k \in 1..Len(d) |-> d[k].total_pollution[1]])]]

NoReport == [written |-> FALSE, top_companies |-> <<>>, cluster_info |-> <<>>,
             details |-> <<>>]

\* ------------------------------------------------------------------ actions

\* __init__ has read the spreadsheet (line 15); preprocess_data has not run.
Init ==
    /\ sheet \in Tables
    /\ pc = "init"
    /\ data = sheet
    /\ clusters = <<>>
    /\ company_stats = <<>>
    /\ report = NoReport
    /\ map = <<>>
    /\ err = ""
    /\ done = {}
    /\ X = <<>>
    /\ eps = 0
    /\ min_samples = 0
    /\ labels = <<>>

preprocess_data ==
    /\ pc = "init"
    /\ data' = PreprocessData(data)
    /\ pc' = "ready"
    /\ UNCHANGED <<sheet, clusters, company_stats, report, map, err, done>>
    /\ UNCHANGED fitVars

spatial_clustering ==
    /\ pc = "ready"
    /\ IF CoordsAccepted(data)
       THEN /\ clusters' = ClusterLabels(data)
            /\ data' = WithClusters(data, clusters')
            /\ done' = done \cup {"spatial_clustering"}
            /\ UNCHANGED <<pc, err>>
       ELSE /\ pc' = "failed"
            /\ err' = "ValueError"
            /\ UNCHANGED <<data, clusters, done>>
    /\ UNCHANGED <<sheet, company_stats, report, map>>
    /\ UNCHANGED fitVars

pollution_analysis ==
    /\ pc = "ready"
    /\ data' = WithTotals(data)
    /\ company_stats' \in CompanyStats(data')
    /\ done' = done \cup {"pollution_analysis"}
    /\ UNCHANGED <<sheet, pc, clusters, report, map, err>>
    /\ UNCHANGED fitVars

\* spatial_clustering, then pollution_analysis, then the report's sections
\* and, from _generate_visualizations, the map's centres.
generate_trace_report ==
    /\ pc = "ready"
    /\ IF CoordsAccepted(data)
       THEN /\ clusters' = ClusterLabels(data)
            /\ data' = WithTotals(WithClusters(data, clusters'))
            /\ company_stats' \in CompanyStats(data')
            /\ \E det \in DetailsChoices(data', ReportedIds(clusters')) :
                  report' = [written |-> TRUE,
                             top_companies |-> Head_(company_stats', TopCompanies),
                             cluster_info |-> ClusterInfo(data'),
                             details |-> det]
            /\ map' = Centers(data')
            /\ done' = done \cup {"spatial_clustering", "pollution_analysis",
                                  "generate_trace_report"}
            /\ UNCHANGED <<pc, err>>
       ELSE /\ pc' = "failed"
            /\ err' = "ValueError"
            /\ UNCHANGED <<data, clusters, company_stats, report, map, done>>
    /\ UNCHANGED sheet
    /\ UNCHANGED fitVars

Next ==
    \/ preprocess_data
    \/ spatial_clustering
    \/ pollution_analysis
    \/ generate_trace_report

Spec == Init /\ [][Next]_vars

\* ------------------------------------------- DBSCAN as a function of its input

\* Points on an integer grid.  Around c = (0,0) lie b1..b4 at distance 10;
\* d1 and d2 lie within 11, but not within 10, of two of them each, and e1,
\* e2 within 10 of d1, d2.
Pt(x, y) == [x |-> x, y |-> y]
MasterPoints == <<
    Pt(-13, 0), Pt(13, 0), Pt(0, 0),
    Pt(-6, 8), Pt(-6, -8), Pt(6, 8), Pt(6, -8),
    Pt(-23, 0), Pt(23, 0),
    Pt(0, 19), Pt(1, 1), Pt(-30, 0)
>>
EpsChoices == {5, 10, 11, 13}

PtLimit == IF MaxPts < Len(MasterPoints) THEN MaxPts ELSE Len(MasterPoints)
PointSets == {Pick(MasterPoints, S, 1) : S \in (SUBSET (1..PtLimit)) \ {{}}}

\* radius_neighbors(X, radius=e): Euclidean distance at most e
WithinRadius(pts, e, i, j) ==
    (pts[i].x - pts[j].x) * (pts[i].x - pts[j].x)
        + (pts[i].y - pts[j].y) * (pts[i].y - pts[j].y) <= e * e

RadiusNeighbors(pts, e) ==
    [i \in 1..Len(pts) |-> {j \in 1..Len(pts) : WithinRadius(pts, e, i, j)}]

\* DBSCAN(eps=e, min_samples=m).fit_predict(pts)
Dbscan(pts, e, m) == FitPredict(Len(pts), RadiusNeighbors(pts, e), m)

InitFit ==
    /\ X \in PointSets
    /\ eps \in EpsChoices
    /\ min_samples \in 1..MaxMinSamples
    /\ labels = <<>>
    /\ sheet = <<>>
    /\ pc = "fit"
    /\ data = <<>>
    /\ clusters = <<>>
    /\ company_stats = <<>>
    /\ report = NoReport
    /\ map = <<>>
    /\ err = ""
    /\ done = {}

fit_predict ==
    /\ pc = "fit"
    /\ labels = <<>>
    /\ labels' = Dbscan(X, eps, min_samples)
    /\ UNCHANGED <<X, eps, min_samples>>
    /\ UNCHANGED progVars

NextFit == fit_predict

SpecFit == InitFit /\ [][NextFit]_vars

\* ------------------------------------------------------- vocabulary of claims

Members(lab, c) == {i \in 1..Len(lab) : lab[i] = c}
ClusterIds(lab) == {lab[i] : i \in 1..Len(lab)} \ {Noise}
NoiseCount(lab) == Cardinality(Members(lab, Noise))
CorePoints(pts, e, m) ==
    {i \in 1..Len(pts) : Cardinality(RadiusNeighbors(pts, e)[i]) >= m}

\* The points of S reachable from the points of F by steps of nb inside S.
RECURSIVE Reach(_, _, _)
Reach(F, S, nb) ==
    LET more == {j \in S : \E i \in F : j \in nb[i]} \ F
    IN  IF more = {} THEN F ELSE Reach(F \cup more, S, nb)

\* Every point carries one label, -1 or a cluster id, and the ids are 0..k-1.
IsLabelling(lab, n) ==
    /\ Len(lab) = n
    /\ \A i \in 1..n : lab[i] = Noise \/ lab[i] >= 0
    /\ ClusterIds(lab) = 0..(Cardinality(ClusterIds(lab)) - 1)

\* Each cluster has a core point; its core points are connected by steps of
\* at most eps; its other members lie within eps of one of its core points;
\* a core point is never noise; distinct clusters are numbered by their
\* first core point in input order.
DensityClusters(pts, e, m, lab) ==
    LET nb == RadiusNeighbors(pts, e)
        core == CorePoints(pts, e, m)
        cores(c) == Members(lab, c) \cap core
    IN  /\ \A i \in core : lab[i] # Noise
        /\ \A i \in Members(lab, Noise) : nb[i] \cap core = {}
        /\ \A c \in ClusterIds(lab) :
              /\ cores(c) # {}
              /\ Reach({Min(cores(c))}, cores(c), nb) = cores(c)
              /\ \A i \in Members(lab, c) \ core : nb[i] \cap cores(c) # {}
        /\ \A c, c2 \in ClusterIds(lab) :
              c < c2 => /\ cores(c) # {} /\ cores(c2) # {}
                        /\ Min(cores(c)) < Min(cores(c2))
                        /\ \A i \in cores(c) : nb[i] \cap cores(c2) = {}

Clustered == "spatial_clustering" \in done
Analysed == "pollution_analysis" \in done
Reported == report.written
Rows == 1..Len(data)
Total(k) == data[k].total_pollution[1]
TotalOver(G) == SumOver(G, [k \in Rows |-> Total(k)])
MissingCoords(k) == IsNaN(data[k].lon) \/ IsNaN(data[k].lat)
AllCoordsPresent == Len(data) > 0 /\ \A k \in Rows : ~MissingCoords(k)
AllIdentical ==
    \A j, k \in Rows : data[j].lon = data[k].lon /\ data[j].lat = data[k].lat

\* C1: on a table of at least one record, spatial_clustering returns, and
\* its label array has one label, -1 or >= 0, per record, record k's at
\* position k, records with missing coordinates included.
C1_EveryRecordLabelled ==
    (pc # "init" /\ Len(sheet) > 0) =>
        /\ pc # "failed"
        /\ Clustered =>
              /\ Len(clusters) = Len(sheet)
              /\ Len(data) = Len(sheet)
              /\ \A k \in Rows :
                    /\ clusters[k] >= Noise
                    /\ data[k].cluster = <<clusters[k]>>
                    /\ data[k].name = sheet[k].name

\* C3: a record with a missing longitude or latitude does not abort the
\* clustering, gets label -1 and enters no cluster's centre.
C3_MissingCoordsAreNoise ==
    (pc # "init" /\ \E k \in Rows : MissingCoords(k)) =>
        /\ pc # "failed"
        /\ Clustered => \A k \in Rows : MissingCoords(k) => data[k].cluster = <<Noise>>
        /\ Reported =>
              \A g \in 1..Len(map) :
                  map[g].center_lon.count
                      = Cardinality({k \in Rows : data[k].cluster = <<map[g].cluster>>
                                                    /\ ~MissingCoords(k)})

\* C5: after pollution_analysis every record's total_pollution is defined
\* and is the sum of its four load fields, a missing field counting 0 (so 0
\* when all four are missing); the wastewater volume is not in the sum and
\* the fields themselves are as preprocess_data left them.
C5_TotalPollution ==
    Analysed =>
        \A k \in Rows :
            LET r == data[k]
                z(c) == IF c = NaN THEN 0 ELSE c[1]
                was == PreprocessRow(sheet[k])
            IN  /\ r.total_pollution # NaN
                /\ Total(k) = z(r.primary) + z(r.ammonia) + z(r.phosphorus) + z(r.nitrogen)
                /\ (r.primary = NaN /\ r.ammonia = NaN /\ r.phosphorus = NaN
                        /\ r.nitrogen = NaN) => Total(k) = 0
                /\ r.primary = was.primary /\ r.ammonia = was.ammonia
                /\ r.phosphorus = was.phosphorus /\ r.nitrogen = was.nitrogen
                /\ r.wastewater = was.wastewater

\* A record whose four load fields are all missing and one with a missing
\* field, a parsed text and a wastewater volume, both analysed.
C5_Witness ==
    /\ Analysed
    /\ \E k \in Rows : data[k].primary = NaN /\ data[k].ammonia = NaN
                        /\ data[k].phosphorus = NaN /\ data[k].nitrogen = NaN
                        /\ data[k].wastewater # NaN /\ Total(k) = 0
    /\ \E k \in Rows : data[k].nitrogen = NaN /\ Total(k) = 2
                        /\ sheet[k].nitrogen.t = "text"
    /\ \E k \in Rows : sheet[k].phosphorus.t = "text" /\ Total(k) = 15

\* C6: every cluster aggregate's total is the sum of total_pollution over
\* the records with its label, every entity aggregate's total the sum over
\* the records with its name, and no record is counted in two aggregates of
\* one kind.
C6_AggregateTotals ==
    /\ Analysed =>
          /\ \A g \in 1..Len(company_stats) :
                company_stats[g].total_pollution
                    = TotalOver({k \in Rows : data[k].name = company_stats[g].name})
          /\ \A g, h \in 1..Len(company_stats) :
                company_stats[g].name = company_stats[h].name => g = h
          /\ \A k \in Rows :
                data[k].name # Missing =>
                    \E g \in 1..Len(company_stats) : company_stats[g].name = data[k].name
    /\ Reported =>
          /\ \A g \in 1..Len(report.cluster_info) :
                report.cluster_info[g].total_pollution
                    = TotalOver({k \in Rows : data[k].cluster = <<report.cluster_info[g].cluster>>})
          /\ \A g \in 1..Len(report.details) :
                report.details[g].total_pollution
                    = TotalOver({k \in Rows : data[k].cluster = <<report.details[g].cluster>>})
          /\ \A g, h \in 1..Len(report.cluster_info) :
                report.cluster_info[g].cluster = report.cluster_info[h].cluster => g = h
          /\ \A g, h \in 1..Len(report.details) :
                report.details[g].cluster = report.details[h].cluster => g = h
          /\ \A g \in 1..Len(map) :
                map[g].total_pollution
                    = TotalOver({k \in Rows : data[k].cluster = <<map[g].cluster>>})

\* A report on two clusters and noise, over three entities with several
\* records each.
C6_Witness ==
    /\ Reported
    /\ Len(report.details) = 2
    /\ \E k \in Rows : data[k].cluster = <<Noise>>
    /\ Len(company_stats) = 3
    /\ \A g \in 1..Len(company_stats) :
          Cardinality({k \in Rows : data[k].name = company_stats[g].name}) >= 2
    /\ \E g \in 1..Len(report.details) : report.details[g].total_pollution > 9

\* The outlet types that occur most often among the entity's records.
ModesOf(name) ==
    LET G == {k \in Rows : data[k].name = name}
        vals == {data[k].outlet_type : k \in G} \ {Missing}
        count(t) == Cardinality({k \in G : data[k].outlet_type = t})
    IN  {t \in vals : \A u \in vals : count(u) <= count(t)}
FirstMode(name) ==
    data[Min({k \in Rows : data[k].name = name
                            /\ data[k].outlet_type \in ModesOf(name)})].outlet_type

\* C7 as stated: an entity's dominant outlet type is one of maximal
\* frequency among its records, and of several such the one that occurs
\* first in input order.
C7_ModeFirstInInputOrder ==
    Analysed =>
        \A g \in 1..Len(company_stats) :
            LET e == company_stats[g]
            IN  ModesOf(e.name) # {} =>
                    /\ e.outlet_type \in ModesOf(e.name)
                    /\ e.outlet_type = FirstMode(e.name)

\* C7, amended: an entity's dominant outlet type is one of maximal
\* frequency among its records' outlet types (missing ones not counted), and
\* of several such the one that comes first in sort order; an entity none of
\* whose records has an outlet type reports None.
C7_ModeSmallest ==
    Analysed =>
        \A g \in 1..Len(company_stats) :
            LET e == company_stats[g]
            IN  IF ModesOf(e.name) = {} THEN e.outlet_type = "None"
                ELSE /\ e.outlet_type \in ModesOf(e.name)
                     /\ \A t \in ModesOf(e.name) : Rank(e.outlet_type) <= Rank(t)

\* An entity with a tie whose first-encountered type is not the one
\* reported, and an entity with no outlet type at all.
C7_Witness ==
    /\ Analysed
    /\ \E g \in 1..Len(company_stats) :
          /\ Cardinality(ModesOf(company_stats[g].name)) = 2
          /\ company_stats[g].outlet_type # FirstMode(company_stats[g].name)
    /\ \E g \in 1..Len(company_stats) : ModesOf(company_stats[g].name) = {}

\* What the ranked member list of every cluster satisfies whatever the order
\* of equal totals: min(5, size) distinct members of the cluster, with their
\* names and totals, in non-increasing order of total_pollution, none below
\* an unlisted member.
TopMembersRanked(d) ==
    LET cd == {k \in Rows : data[k].cluster = <<d.cluster>>}
        listed == {d.top[p].row : p \in 1..Len(d.top)}
    IN  /\ Len(d.top) = (IF Cardinality(cd) < TopN THEN Cardinality(cd) ELSE TopN)
        /\ listed \subseteq cd
        /\ Cardinality(listed) = Len(d.top)
        /\ \A p \in 1..Len(d.top) :
              /\ d.top[p].total_pollution = Total(d.top[p].row)
              /\ d.top[p].name = data[d.top[p].row].name
        /\ \A p, q \in 1..Len(d.top) :
              p < q => d.top[p].total_pollution >= d.top[q].total_pollution
        /\ \A p \in 1..Len(d.top) : \A u \in cd \ listed :
              d.top[p].total_pollution >= Total(u)

\* Members with equal totals are listed, and selected at the cut-off, in
\* input order.
TiesInInputOrder(d) ==
    LET cd == {k \in Rows : data[k].cluster = <<d.cluster>>}
        listed == {d.top[p].row : p \in 1..Len(d.top)}
    IN  /\ \A p, q \in 1..Len(d.top) :
              (p < q /\ d.top[p].total_pollution = d.top[q].total_pollution)
                  => d.top[p].row < d.top[q].row
        /\ \A p \in 1..Len(d.top) : \A u \in cd \ listed :
              d.top[p].total_pollution = Total(u) => d.top[p].row < u

\* C8 as stated: the top-member list of every cluster holds min(5, size)
\* members in non-increasing order of total_pollution, none below an
\* unlisted member, and equal totals in input order.
C8_TopMembersStable ==
    Reported =>
        \A g \in 1..Len(report.details) :
            /\ TopMembersRanked(report.details[g])
            /\ TiesInInputOrder(report.details[g])

\* C8, amended: the top-member list of every cluster holds min(5, size)
\* members of the cluster in non-increasing order of total_pollution, and
\* every listed member's total is >= every unlisted member's; the order of
\* members with equal totals, and which of them is kept at the cut-off, is
\* not determined (sort_values uses its default, unstable quicksort).
C8_TopMembers ==
    Reported =>
        \A g \in 1..Len(report.details) : TopMembersRanked(report.details[g])

\* A cluster of more than five members where a tie at the cut-off was
\* resolved against input order.
C8_Witness ==
    /\ Reported
    /\ \E g \in 1..Len(report.details) :
          LET d == report.details[g]
              cd == {k \in Rows : data[k].cluster = <<d.cluster>>}
              listed == {d.top[p].row : p \in 1..Len(d.top)}
          IN  /\ Cardinality(cd) > TopN
              /\ Len(d.top) = TopN
              /\ \E p \in 1..Len(d.top) : \E u \in cd \ listed :
                    d.top[p].total_pollution = Total(u) /\ u < d.top[p].row

C10_ClusterAggregates ==
    Reported =>
        LET ids == SetToSeq({clusters[k] : k \in Rows} \ {Noise})
            entries(agg) ==
                /\ Len(agg) = Len(ids)
                /\ \A g \in 1..Len(agg) :
                      /\ agg[g].cluster = ids[g]
                      /\ agg[g].count
                            = Cardinality({k \in Rows : data[k].cluster = <<ids[g]>>})
        IN  /\ entries(report.details)
            /\ entries(report.cluster_info)

=============================================================================
